---- MODULE Spec2Model ----
(***************************************************************************)
(* Model of python/app/dialog.py: the AppDialog controller, the two proxy  *)
(* models AlphaProxyModel / UniqueNameProxyModel, and the part of the host *)
(* framework (the Task ShotgunModel and the Qt sort/filter proxy) that the *)
(* dialog drives.  Every event of the single-threaded UI event loop is one *)
(* action: a signal reaching a slot of the dialog, or the Task model       *)
(* changing a row, which reaches the proxy's filter.  A framework call may *)
(* raise; the input fail of a handler names the call that does.            *)
(***************************************************************************)
EXTENDS Integers, Sequences, FiniteSets, TLC

\* Largest number of rows the Task source model holds.
MaxRows == 3

(***************************************************************************)
(* Display texts are Python strings, modelled as sequences of code points. *)
(***************************************************************************)
paint == <<112, 97, 105, 110, 116>>
Paint == <<80, 97, 105, 110, 116>>
rig == <<114, 105, 103>>
Texts == {paint, Paint, rig}
\* A row whose display value cannot be read (reading it raises).
Unreadable == <<-1>>
Contents == Texts \cup {Unreadable}

Assets == {"AssetX", "AssetY"}

VARIABLES
    active_entity,      \* AppDialog.active_entity: "unset" until first assigned
    query,              \* entity filter of the Task model's loaded query, or "none"
    rows,               \* rows of _entity_tasks_model: [content, entity]
    view,               \* rows of _entity_tasks_proxy_model: source row numbers, in view order
    pending,            \* a Task fetch is in flight in the host framework
    dynamicSortFilter,  \* proxy flag, mirrored by dynamic_sort_checkbox
    sortColumn,         \* proxy sort column: -1 until sort(0, ...) is called
    released,           \* the models whose destroy() has completed
    refiltered,         \* some visible row was filtered again since the rows were loaded
    selState,           \* last non-empty selection: "never", "failed" or the asset handled without error
    toggle,             \* run of consecutive dynamic-sort toggles: [phase, refreshes]
    last                \* what the last event handler did

vars == <<active_entity, query, rows, view, pending, dynamicSortFilter, sortColumn,
          released, refiltered, selState, toggle, last>>

\* The record kept of one handler run.
Ev(name, arg, outcome, raisedAt, load, refresh, fetch) ==
    [name |-> name, arg |-> arg, outcome |-> outcome, raisedAt |-> raisedAt,
     load |-> load, refresh |-> refresh, fetch |-> fetch]

(***************************************************************************)
(* Python's str.__lt__: lexicographic comparison by code point.            *)
(***************************************************************************)
RECURSIVE StrLess(_, _)
StrLess(a, b) ==
    IF b = <<>> THEN FALSE
    ELSE IF a = <<>> THEN TRUE
    ELSE IF Head(a) # Head(b) THEN Head(a) < Head(b)
    ELSE StrLess(Tail(a), Tail(b))

\* AlphaProxyModel.lessThan with the operands swapped.
lessThan_swapped(rws, left, right) ==
    StrLess(rws[right].content, rws[left].content)

\* AlphaProxyModel.lessThan
lessThan(rws, left, right) ==
    LET lvalue == rws[left].content
        rvalue == rws[right].content
    IN StrLess(lvalue, rvalue)

\* The text with its first code point folded to lower case.
Lower(t) == IF t # <<>> /\ Head(t) >= 65 /\ Head(t) <= 90
            THEN <<Head(t) + 32>> \o Tail(t) ELSE t

\* UniqueNameProxyModel.filterAcceptsRow comparing without regard to case.
filterAcceptsRow_nocase(rws, vw, source_row) ==
    LET content == rws[source_row].content
    IN IF content = Unreadable THEN FALSE
       ELSE IF \E row \in 1..Len(vw) : Lower(rws[vw[row]].content) = Lower(content)
            THEN FALSE
       ELSE TRUE

\* UniqueNameProxyModel.filterAcceptsRow
filterAcceptsRow(rws, vw, source_row) ==
    LET content == rws[source_row].content
    IN IF content = Unreadable THEN FALSE           \* except: log, return False
       ELSE IF \E row \in 1..Len(vw) : rws[vw[row]].content = content
            THEN FALSE                              \* already in the view
       ELSE TRUE                                    \* base class accepts

(***************************************************************************)
(* The Qt proxy (QSortFilterProxyModel) under the two overrides.           *)
(***************************************************************************)
InsertAt(s, p, x) == SubSeq(s, 1, p - 1) \o <<x>> \o SubSeq(s, p, Len(s))

RemoveRow(vw, r) == SelectSeq(vw, LAMBDA x : x # r)

\* Position of source row r in a view kept in lessThan order.
SortedPos(rws, vw, r) ==
    LET before == {k \in 1..Len(vw) : lessThan(rws, r, vw[k])}
    IN IF before = {} THEN Len(vw) + 1
       ELSE CHOOSE k \in before : \A j \in before : k <= j

\* Position of source row r in a view kept in source order.
SourcePos(vw, r) ==
    LET before == {k \in 1..Len(vw) : r < vw[k]}
    IN IF before = {} THEN Len(vw) + 1
       ELSE CHOOSE k \in before : \A j \in before : k <= j

\* The proxy maps an accepted source row into the view.
MapRow(rws, vw, r, col, dyn) ==
    IF col >= 0 /\ dyn THEN InsertAt(vw, SortedPos(rws, vw, r), r)
    ELSE InsertAt(vw, SourcePos(vw, r), r)

\* rowsInserted for source row r: filter it, then map it.
RowInserted(rws, vw, r, col, dyn) ==
    IF filterAcceptsRow(rws, vw, r) THEN MapRow(rws, vw, r, col, dyn) ELSE vw

\* dataChanged for source row r while the proxy filters dynamically.
RowChanged(rws, vw, r, col, dyn) ==
    IF ~dyn THEN vw
    ELSE IF \E k \in 1..Len(vw) : vw[k] = r
         THEN IF filterAcceptsRow(rws, vw, r) THEN vw ELSE RemoveRow(vw, r)
    ELSE IF filterAcceptsRow(rws, vw, r) THEN MapRow(rws, vw, r, col, dyn)
    ELSE vw

RECURSIVE SortRows(_, _)
\* Stable sort of the view by lessThan.
SortRows(rws, vw) ==
    IF vw = <<>> THEN <<>>
    ELSE LET rest == SortRows(rws, SubSeq(vw, 1, Len(vw) - 1))
             r == vw[Len(vw)]
         IN InsertAt(rest, SortedPos(rws, rest, r), r)

RECURSIVE SourceOrder(_)
SourceOrder(vw) ==
    IF vw = <<>> THEN <<>>
    ELSE LET rest == SourceOrder(SubSeq(vw, 1, Len(vw) - 1))
             r == vw[Len(vw)]
         IN InsertAt(rest, SourcePos(rest, r), r)

\* QSortFilterProxyModel's internal sort for sort column col.
ProxySort(rws, vw, col) ==
    IF col >= 0 THEN SortRows(rws, vw) ELSE SourceOrder(vw)

(***************************************************************************)
(* The Task model of the host framework (shotgun_model.ShotgunModel), as   *)
(* the dialog uses it.  tm is [query, rows, view, pending]; view is the    *)
(* proxy's mapping, which Qt updates inside the model's own calls.         *)
(***************************************************************************)
TaskModel == [query |-> query, rows |-> rows, view |-> view, pending |-> pending]

\* ShotgunModel._load_data: the prior query state is discarded (an in-flight
\* fetch included) and the model is reset.  The rows of the new query, cached
\* or fetched, then arrive one by one (TaskRowAdded).
load_data(tm, entity) ==
    [query |-> entity, rows |-> <<>>, view |-> <<>>, pending |-> FALSE]

\* ShotgunModel._refresh_data: starts a fetch for the loaded query.
refresh_data(tm) == [tm EXCEPT !.pending = (tm.query # "none")]

\* AppDialog.clear_cache (connected to no signal): ShotgunModel.clear, then
\* _refresh_data.
clear_cache(tm) == refresh_data([tm EXCEPT !.rows = <<>>, !.view = <<>>])

\* ShotgunModel.hard_refresh: nothing without a loaded query; otherwise the
\* cached rows are discarded and the fetch of the loaded query is issued again.
hard_refresh(tm) ==
    IF tm.query = "none" THEN tm
    ELSE [tm EXCEPT !.rows = <<>>, !.view = <<>>, !.pending = TRUE]

(***************************************************************************)
(* AppDialog                                                               *)
(***************************************************************************)
NoToggle == [phase |-> "none", refreshes |-> 0]

\* AppDialog.__init__
Init ==
    /\ active_entity = "unset"          \* never assigned in __init__
    /\ query = "none"
    /\ rows = <<>>
    /\ view = <<>>
    /\ pending = FALSE
    /\ dynamicSortFilter = TRUE         \* setDynamicSortFilter(True)
    /\ sortColumn = -1
    /\ released = {}
    /\ refiltered = FALSE
    /\ selState = "never"
    /\ toggle = NoToggle
    /\ last = Ev("init", "none", "none", "none", "none", 0, FALSE)

\* AppDialog.load_task_data, run with self.active_entity = entity: the Task
\* model afterwards, where an error was raised, and the requests made.
load_task_data(entity, fail) ==
    IF entity = "unset"
    THEN [tm |-> TaskModel, raisedAt |-> "active_entity", load |-> "none", refresh |-> 0]
    ELSE IF fail = "load"
    THEN [tm |-> TaskModel, raisedAt |-> "load", load |-> entity, refresh |-> 0]
    ELSE IF fail = "refresh"
    THEN [tm |-> load_data(TaskModel, entity), raisedAt |-> "refresh",
          load |-> entity, refresh |-> 1]
    ELSE [tm |-> refresh_data(load_data(TaskModel, entity)), raisedAt |-> "none",
          load |-> entity, refresh |-> 1]

SetTaskModel(tm) ==
    /\ query' = tm.query
    /\ rows' = tm.rows
    /\ view' = tm.view
    /\ pending' = tm.pending
    /\ refiltered' = IF tm.rows = rows THEN refiltered ELSE FALSE

\* handle_asset_selection that forgets to call load_task_data.
handle_asset_selection_no_load(selected, fail) ==
    IF selected = "empty"
    THEN /\ last' = Ev("deselect", selected, "none", "none", "none", 0, FALSE)
         /\ UNCHANGED <<active_entity, query, rows, view, pending, refiltered, selState>>
    ELSE IF fail = "data"
    THEN /\ last' = Ev("select", selected, "logged", "data", "none", 0, FALSE)
         /\ selState' = "failed"
         /\ UNCHANGED <<active_entity, query, rows, view, pending, refiltered>>
    ELSE /\ active_entity' = selected
         /\ selState' = selected
         /\ last' = Ev("select", selected, "none", "none", "none", 0, FALSE)
         /\ UNCHANGED <<query, rows, view, pending, refiltered>>

\* handle_asset_selection that treats an empty selection as "show no tasks".
handle_asset_selection_clears(selected, fail) ==
    IF selected = "empty"
    THEN /\ last' = Ev("deselect", selected, "none", "none", "none", 0, FALSE)
         /\ rows' = <<>>
         /\ view' = <<>>
         /\ refiltered' = FALSE
         /\ UNCHANGED <<active_entity, query, pending, selState>>
    ELSE IF fail = "data"
    THEN /\ last' = Ev("select", selected, "logged", "data", "none", 0, FALSE)
         /\ selState' = "failed"
         /\ UNCHANGED <<active_entity, query, rows, view, pending, refiltered>>
    ELSE LET r == load_task_data(selected, fail)
         IN /\ active_entity' = selected
            /\ SetTaskModel(r.tm)
            /\ selState' = IF r.raisedAt = "none" THEN selected ELSE "failed"
            /\ last' = Ev("select", selected,
                          IF r.raisedAt = "none" THEN "none" ELSE "logged",
                          r.raisedAt, r.load, r.refresh, r.raisedAt = "none")

\* handle_asset_selection without its try/except.
handle_asset_selection_no_try(selected, fail) ==
    IF selected = "empty"
    THEN /\ last' = Ev("deselect", selected, "none", "none", "none", 0, FALSE)
         /\ UNCHANGED <<active_entity, query, rows, view, pending, refiltered, selState>>
    ELSE IF fail = "data"
    THEN /\ last' = Ev("select", selected, "escaped", "data", "none", 0, FALSE)
         /\ selState' = "failed"
         /\ UNCHANGED <<active_entity, query, rows, view, pending, refiltered>>
    ELSE LET r == load_task_data(selected, fail)
         IN /\ active_entity' = selected
            /\ SetTaskModel(r.tm)
            /\ selState' = IF r.raisedAt = "none" THEN selected ELSE "failed"
            /\ last' = Ev("select", selected,
                          IF r.raisedAt = "none" THEN "none" ELSE "escaped",
                          r.raisedAt, r.load, r.refresh, r.raisedAt = "none")

\* AppDialog.handle_asset_selection
handle_asset_selection(selected, fail) ==
    IF selected = "empty"
    THEN \* if not indexes: return
         /\ last' = Ev("deselect", selected, "none", "none", "none", 0, FALSE)
         /\ UNCHANGED <<active_entity, query, rows, view, pending, refiltered, selState>>
    ELSE IF fail = "data"
    THEN \* reading the entity raised: except, logger.error
         /\ last' = Ev("select", selected, "logged", "data", "none", 0, FALSE)
         /\ selState' = "failed"
         /\ UNCHANGED <<active_entity, query, rows, view, pending, refiltered>>
    ELSE LET r == load_task_data(selected, fail)
         IN /\ active_entity' = selected
            /\ SetTaskModel(r.tm)
            /\ selState' = IF r.raisedAt = "none" THEN selected ELSE "failed"
            /\ last' = Ev("select", selected,
                          IF r.raisedAt = "none" THEN "none" ELSE "logged",
                          r.raisedAt, r.load, r.refresh, r.raisedAt = "none")

\* The slot of refresh_button.clicked: AppDialog.load_task_data
refresh_clicked(fail) ==
    LET r == load_task_data(active_entity, fail)
    IN /\ SetTaskModel(r.tm)
       /\ last' = Ev("refresh_button", "none",
                     IF r.raisedAt = "none" THEN "none" ELSE "escaped",
                     r.raisedAt, r.load, r.refresh, r.raisedAt = "none")
       /\ UNCHANGED <<active_entity, selState>>

\* clear_cache_button.clicked connected to AppDialog.clear_cache instead.
clear_cache_clicked_clear_cache(fail) ==
    IF fail = "hard_refresh" /\ query # "none"
    THEN /\ last' = Ev("clear_cache", "none", "escaped", "hard_refresh", "none", 0, FALSE)
         /\ UNCHANGED <<active_entity, query, rows, view, pending, refiltered, selState>>
    ELSE /\ SetTaskModel(clear_cache(TaskModel))
         /\ last' = Ev("clear_cache", "none", "none", "none", "none", 1, query # "none")
         /\ UNCHANGED <<active_entity, selState>>

\* The slot of clear_cache_button.clicked: ShotgunModel.hard_refresh
clear_cache_clicked(fail) ==
    IF fail = "hard_refresh" /\ query # "none"
    THEN /\ last' = Ev("clear_cache", "none", "escaped", "hard_refresh", "none", 0, FALSE)
         /\ UNCHANGED <<active_entity, query, rows, view, pending, refiltered, selState>>
    ELSE /\ SetTaskModel(hard_refresh(TaskModel))
         /\ last' = Ev("clear_cache", "none", "none", "none", "none", 0, query # "none")
         /\ UNCHANGED <<active_entity, selState>>

\* on_dynamic_sort_changed that refreshes only when the filter is switched on.
on_dynamic_sort_changed_refresh_on(state, fail) ==
    LET sorted == IF state THEN ProxySort(rows, view, sortColumn) ELSE view
        raised == state /\ fail = "refresh"
        calls == IF state THEN 1 ELSE 0
    IN /\ dynamicSortFilter' = state
       /\ view' = sorted
       /\ pending' = IF raised \/ ~state THEN pending ELSE (query # "none")
       /\ toggle' = IF ~state THEN [phase |-> "off", refreshes |-> calls]
                    ELSE IF toggle.phase = "off"
                    THEN [phase |-> "offon", refreshes |-> toggle.refreshes + calls]
                    ELSE NoToggle
       /\ last' = Ev("dynamic_sort", state, IF raised THEN "escaped" ELSE "none",
                     IF raised THEN "refresh" ELSE "none", "none", calls,
                     state /\ ~raised /\ query # "none")
       /\ UNCHANGED <<active_entity, query, rows, sortColumn, released, refiltered, selState>>

\* AppDialog.on_dynamic_sort_changed
on_dynamic_sort_changed(state, fail) ==
    LET sorted == IF state THEN ProxySort(rows, view, sortColumn) ELSE view
        raised == (fail = "refresh")
        calls == 1
    IN /\ dynamicSortFilter' = state
       /\ view' = sorted
       /\ pending' = IF raised THEN pending ELSE (query # "none")
       /\ toggle' = IF ~state THEN [phase |-> "off", refreshes |-> calls]
                    ELSE IF toggle.phase = "off"
                    THEN [phase |-> "offon", refreshes |-> toggle.refreshes + calls]
                    ELSE NoToggle
       /\ last' = Ev("dynamic_sort", state, IF raised THEN "escaped" ELSE "none",
                     IF raised THEN "refresh" ELSE "none", "none", calls,
                     ~raised /\ query # "none")
       /\ UNCHANGED <<active_entity, query, rows, sortColumn, released, refiltered, selState>>

\* AppDialog.on_task_data_refreshed, run on the view the notification finds.
on_task_data_refreshed(rws, vw) ==
    /\ sortColumn' = 0
    /\ view' = SortRows(rws, vw)

\* AppDialog.destroy
destroy(fail) ==
    /\ released' = IF fail = "entity" THEN released
                   ELSE IF fail = "tasks" THEN released \cup {"entity"}
                   ELSE released \cup {"entity", "tasks"}
    /\ last' = Ev("destroy", "none", IF fail = "none" THEN "none" ELSE "ignored",
                  fail, "none", 0, FALSE)

(***************************************************************************)
(* Events of the UI event loop.                                            *)
(***************************************************************************)
Alive == last.name # "destroy"

SelectionChanged ==
    /\ Alive
    /\ \E selected \in Assets \cup {"empty"} :
       \E fail \in {"none", "data", "load", "refresh"} :
           handle_asset_selection(selected, fail)
    /\ toggle' = NoToggle
    /\ UNCHANGED <<dynamicSortFilter, sortColumn, released>>

RefreshClicked ==
    /\ Alive
    /\ \E fail \in {"none", "load", "refresh"} : refresh_clicked(fail)
    /\ toggle' = NoToggle
    /\ UNCHANGED <<dynamicSortFilter, sortColumn, released>>

ClearCacheClicked ==
    /\ Alive
    /\ \E fail \in {"none", "hard_refresh"} : clear_cache_clicked(fail)
    /\ toggle' = NoToggle
    /\ UNCHANGED <<dynamicSortFilter, sortColumn, released>>

DynamicSortToggled ==
    /\ Alive
    /\ \E fail \in {"none", "refresh"} :
           on_dynamic_sort_changed(~dynamicSortFilter, fail)

\* The framework appends a row of the loaded query to the Task model (a
\* cached row after a load, or a row of the fetch result); rowsInserted
\* reaches the proxy, which filters and maps the new row.
TaskRowAdded ==
    /\ Alive
    /\ pending
    /\ Len(rows) < MaxRows
    /\ \E content \in Contents :
           LET rws == Append(rows, [content |-> content, entity |-> query])
           IN /\ rows' = rws
              /\ view' = RowInserted(rws, view, Len(rws), sortColumn, dynamicSortFilter)
    /\ toggle' = NoToggle
    /\ last' = Ev("row_added", "none", "none", "none", "none", 0, FALSE)
    /\ UNCHANGED <<active_entity, query, pending, dynamicSortFilter, sortColumn,
                   released, refiltered, selState>>

\* The framework updates an item of the Task model from the fetch result;
\* dataChanged reaches the proxy, which filters the row again.
TaskRowChanged ==
    /\ Alive
    /\ pending
    /\ \E r \in 1..Len(rows) :
           /\ view' = RowChanged(rows, view, r, sortColumn, dynamicSortFilter)
           /\ refiltered' = (refiltered \/
                             (dynamicSortFilter /\ \E k \in 1..Len(view) : view[k] = r))
    /\ toggle' = NoToggle
    /\ last' = Ev("row_changed", "none", "none", "none", "none", 0, FALSE)
    /\ UNCHANGED <<active_entity, query, rows, pending, dynamicSortFilter, sortColumn,
                   released, selState>>

\* The fetch completes and the Task model emits data_refreshed.
TaskDataRefreshed ==
    /\ Alive
    /\ pending
    /\ on_task_data_refreshed(rows, view)
    /\ pending' = FALSE
    /\ toggle' = NoToggle
    /\ last' = Ev("task_refreshed", "none", "none", "none", "none", 0, FALSE)
    /\ UNCHANGED <<active_entity, query, rows, dynamicSortFilter, released,
                   refiltered, selState>>

Destroy ==
    /\ Alive
    /\ \E fail \in {"none", "entity", "tasks"} : destroy(fail)
    /\ toggle' = NoToggle
    /\ UNCHANGED <<active_entity, query, rows, view, pending, dynamicSortFilter,
                   sortColumn, refiltered, selState>>

Next ==
    \/ SelectionChanged
    \/ RefreshClicked
    \/ ClearCacheClicked
    \/ DynamicSortToggled
    \/ TaskRowAdded
    \/ TaskRowChanged
    \/ TaskDataRefreshed
    \/ Destroy

Spec == Init /\ [][Next]_vars

(***************************************************************************)
(* Properties                                                              *)
(***************************************************************************)
RowTexts == [k \in 1..Len(rows) |-> rows[k].content]

ViewTexts(rws, vw) == [k \in 1..Len(vw) |-> rws[vw[k]].content]

Visible == {view[k] : k \in 1..Len(view)}

DupFree ==
    \A i, j \in 1..Len(view) : i # j => rows[view[i]].content # rows[view[j]].content

IsSortedAsc ==
    \A i, j \in 1..Len(view) :
        i < j => StrLess(rows[view[i]].content, rows[view[j]].content)

\* The first source row of each readable text is visible.
FirstSeenWins ==
    \A r \in 1..Len(rows) :
        (/\ rows[r].content # Unreadable
         /\ \A q \in 1..(r - 1) : rows[q].content # rows[r].content)
        => r \in Visible

\* C1: whatever rows went through filterAcceptsRow, rows filtered again
\* included, the view holds no two rows of equal text, only source rows, and
\* the first row seen of every text.
C1_UniqueFirstSeen ==
    /\ DupFree
    /\ Visible \subseteq 1..Len(rows)
    /\ FirstSeenWins

C4_OneRefreshPerOffOn ==
    toggle.phase = "offon" => (toggle.refreshes = 1 /\ DupFree /\ IsSortedAsc)

\* C4 amended: off then on issues exactly two refresh requests, one per
\* state change; the view is duplicate-free afterwards, and sorted ascending
\* once a refresh notification has set the proxy's sort column.
C4_TwoRefreshesPerOffOn ==
    toggle.phase = "offon"
    => /\ toggle.refreshes = 2
       /\ DupFree
       /\ sortColumn = 0 => IsSortedAsc

C4_Witness ==
    /\ toggle.phase = "offon"
    /\ sortColumn = 0
    /\ Len(view) = 3

\* C5: a selection-changed event with an empty selection changes neither
\* the active entity nor the Task model nor the view, and issues no request.
C5_DeselectNoOp ==
    [][last'.name = "deselect"
       => /\ UNCHANGED <<active_entity, query, rows, view, pending>>
          /\ last'.load = "none"
          /\ last'.refresh = 0
          /\ ~last'.fetch
          /\ last'.outcome = "none"]_vars

C5_Witness ==
    /\ last.name = "deselect"
    /\ active_entity \in Assets
    /\ view # <<>>

\* C6: no event handler lets an error escape to the host, in any state.
C6_NoErrorEscapes == last.outcome # "escaped"

\* C7 as stated: an error raised at any step of handling a non-empty
\* selection is caught and logged and leaves the active entity as it was.
C7_ErrorKeepsActiveEntity ==
    [][(last'.name = "select" /\ last'.raisedAt # "none")
       => (last'.outcome = "logged" /\ active_entity' = active_entity)]_vars

\* C7 amended: the error is caught and logged at every step; the active
\* entity keeps its value when reading the selected entity raised, and is
\* already the new selection when the load or refresh request raised.
C7_ErrorLoggedEntityKeptOnExtract ==
    [][(last'.name = "select" /\ last'.raisedAt # "none")
       => /\ last'.outcome = "logged"
          /\ last'.raisedAt = "data" => active_entity' = active_entity
          /\ last'.raisedAt \in {"load", "refresh"} => active_entity' = last'.arg]_vars

C7_Witness ==
    /\ last.name = "select"
    /\ last.raisedAt = "data"
    /\ active_entity \in Assets
    /\ active_entity # last.arg

\* C8: destroy lets no error out and releases both models, the Task model
\* also when releasing the Asset entity model raised.
C8_BothReleased ==
    last.name = "destroy"
    => /\ last.outcome # "escaped"
       /\ last.raisedAt # "entity" => "entity" \in released
       /\ last.raisedAt # "tasks" => "tasks" \in released

\* C9: after each Task refresh notification the view is sorted ascending by
\* text, dynamic sort on or off, and lessThan is the strict lexicographic
\* order of the texts.
C9_SortedAfterRefresh ==
    /\ last.name = "task_refreshed" => IsSortedAsc
    /\ \A l, r \in 1..Len(rows) :
           lessThan(rows, l, r) <=> StrLess(rows[l].content, rows[r].content)

C9_Witness ==
    /\ last.name = "task_refreshed"
    /\ ~dynamicSortFilter
    /\ Len(view) = 3
    /\ view # <<1, 2, 3>>

Scenario ==
    /\ last.name = "task_refreshed"
    /\ Len(rows) = 3
    /\ {rows[k].content : k \in 1..Len(rows)} = {paint, Paint, rig}
    /\ ~refiltered

\* C10 as stated: for Tasks "paint", "Paint" and "rig" the view after
\* filtering and sorting is exactly paint, Paint, rig.
C10_ScenarioAsStated == Scenario => ViewTexts(rows, view) = <<paint, Paint, rig>>

\* C10 amended: all three rows stay visible (equality is case-sensitive) and
\* the sorted view is Paint, paint, rig, upper case ordering first.
C10_ScenarioCodePointOrder == Scenario => ViewTexts(rows, view) = <<Paint, paint, rig>>

C10_Witness ==
    /\ Scenario
    /\ RowTexts = <<paint, Paint, rig>>
    /\ Len(view) = 3

====
